---- MODULE Spec2Model ----
(***************************************************************************)
(* State-machine model of the Flask application in src/app.py: the session *)
(* gate (login_required / admin_required), the credential store (Usuario),  *)
(* the catalog (Categoria / Producto) and the order ledger (Cliente /       *)
(* Orden).  One action per route; an action is one whole request: the       *)
(* decorators, the handler body, the commit and the response.               *)
(*                                                                         *)
(* A submitted form is assumed to carry the token the rendered form held:   *)
(* FlaskForm.validate_on_submit() is "POST and every field validates".      *)
(***************************************************************************)
EXTENDS Integers, Sequences, FiniteSets, TLC

VARIABLES
    usuarios,      \* rows of table usuario
    categorias,    \* rows of table categoria
    productos,     \* rows of table producto
    clientes,      \* rows of table cliente
    ordenes,       \* rows of table orden
    next_id,       \* AUTO_INCREMENT counter of each table
    session,       \* the caller's cookie session: a function from keys to values
    req,           \* the request being answered (route, method, id, form)
    resp           \* the response to req

vars == <<usuarios, categorias, productos, clientes, ordenes, next_id, session, req, resp>>
stores == <<usuarios, categorias, productos, clientes, ordenes, next_id>>

----------------------------------------------------------------------------
(* Bounds of the model: the highest primary key each table hands out.      *)
MaxUsuarioId == 2
MaxCategoriaId == 2
MaxProductoId == 2
MaxClienteId == 2
MaxOrdenId == 2

(* SQL NULL / Python None of an integer column or field.                   *)
NULL == 0

----------------------------------------------------------------------------
(* flask_bcrypt.  A hash carries its salt and the digest of (salt,         *)
(* password); checking recomputes the digest under the hash's own salt.    *)
Salts == {"s1", "s2"}

bcrypt_digest(salt, password) == <<salt, password>>

generate_password_hash(password, salt) ==
    [salt |-> salt, digest |-> bcrypt_digest(salt, password)]

check_password_hash(hash, password) ==
    hash.digest = bcrypt_digest(hash.salt, password)

----------------------------------------------------------------------------
(* wtforms validators, by what they do on the submitted data.              *)
Blank == {"", " ", "  "}

\* DataRequired on a string field: the data is truthy and not only blanks.
DataRequired(data) == data \notin Blank

\* DataRequired on an IntegerField / DecimalField / SelectField(coerce=int):
\* the data is truthy, so None and 0 are both refused.
DataRequiredNumber(data) == data # NULL /\ data # 0

NumberRange(min, data) == data >= min

Length(min, max, data) == Len(data) >= min /\ Len(data) <= max

\* Email(): the addresses of the model that email_validator accepts.
ValidEmails == {"admin@dulcehogar.com", "ana@dulcehogar.com"}

Email(data) == data \in ValidEmails

\* SelectField.pre_validate: the data is one of the choices.
ValidChoice(choices, data) == data \in choices

----------------------------------------------------------------------------
(* Responses.  ran is the sequence of decorator checks evaluated, body     *)
(* tells whether the handler's own code ran.                               *)
EmptySession == [k \in {} |-> ""]

redirect(to, flash, ran, body) ==
    [status |-> "redirect", to |-> to, flash |-> flash, ran |-> ran, body |-> body,
     rows |-> {}]

render_template(tpl, flash, ran) ==
    [status |-> "render", to |-> tpl, flash |-> flash, ran |-> ran, body |-> TRUE,
     rows |-> {}]

\* A list view: the template receives every row of the table.
render_list(tpl, rows, ran) ==
    [status |-> "render", to |-> tpl, flash |-> "none", ran |-> ran, body |-> TRUE,
     rows |-> rows]

abort404(ran) ==
    [status |-> "abort", to |-> "404", flash |-> "none", ran |-> ran, body |-> TRUE,
     rows |-> {}]

\* An exception no handler catches: the commit's IntegrityError leaves the view.
IntegrityError(ran) ==
    [status |-> "error", to |-> "IntegrityError", flash |-> "none", ran |-> ran,
     body |-> TRUE, rows |-> {}]

request(route, method, id, form) ==
    [route |-> route, method |-> method, id |-> id, form |-> form]

NoForm == [k \in {} |-> ""]

----------------------------------------------------------------------------
(* The decorators.                                                         *)
login_required(s) == "usuario_id" \in DOMAIN s

admin_required_mut_present(s) == "usuario_rol" \in DOMAIN s

admin_required(s) == "usuario_rol" \in DOMAIN s /\ s["usuario_rol"] = "admin"

Passes(dec, s) ==
    IF dec = "login_required" THEN login_required(s) ELSE admin_required(s)

Denial(dec, ran) ==
    IF dec = "login_required"
    THEN redirect("login", "warning", ran, FALSE)
    ELSE redirect("index", "danger", ran, FALSE)

\* The decorator stack of a route, outermost first.
AdminStack_mut_swapped == <<"admin_required", "login_required">>

AdminStack == <<"login_required", "admin_required">>

LoginStack == <<"login_required">>

RECURSIVE RunChecks(_, _, _)
\* Evaluates the stack from the outermost decorator inwards; stops at the
\* first check that fails.
RunChecks(decs, s, i) ==
    IF i > Len(decs)
    THEN [ok |-> TRUE, ran |-> decs, resp |-> redirect("", "none", decs, FALSE)]
    ELSE IF Passes(decs[i], s)
         THEN RunChecks(decs, s, i + 1)
         ELSE [ok |-> FALSE, ran |-> SubSeq(decs, 1, i),
               resp |-> Denial(decs[i], SubSeq(decs, 1, i))]

Gate(decs) == RunChecks(decs, session, 1)

----------------------------------------------------------------------------
(* Table helpers.                                                          *)
Get(table, id) == CHOOSE r \in table : r.id = id

Exists(table, id) == \E r \in table : r.id = id

Ids(table) == {r.id : r \in table}

\* A unique column holds no value twice.
Unique(table, col) == \A a, b \in table : a[col] = b[col] => a = b

Bump(tbl) == [next_id EXCEPT ![tbl] = @ + 1]

----------------------------------------------------------------------------
(* Initial state: db.create_all() and the default administrator.           *)
\* Salts are interchangeable, so the bootstrap's random salt is named once.
Init ==
    /\ usuarios = {[id |-> 1, nombre |-> "Administrador",
                    correo |-> "admin@dulcehogar.com",
                    contrasena |-> generate_password_hash("admin123", "s1"),
                    rol |-> "admin"]}
    /\ categorias = {}
    /\ productos = {}
    /\ clientes = {}
    /\ ordenes = {}
    /\ next_id = [usuario |-> 2, categoria |-> 1, producto |-> 1, cliente |-> 1, orden |-> 1]
    /\ session = EmptySession
    /\ req = request("start", "GET", NULL, NoForm)
    /\ resp = render_template("start", "none", <<>>)

----------------------------------------------------------------------------
(* Authentication routes.                                                  *)
LoginForm_validate(form) ==
    /\ DataRequired(form.correo) /\ Email(form.correo)
    /\ DataRequired(form.contrasena)

\* Line 136: a row was found and the password matches its stored hash.
credentials_ok_mut_row_only(found, password) == found # {}

credentials_ok(found, password) ==
    found # {} /\ check_password_hash((CHOOSE u \in found : TRUE).contrasena, password)

login(method, form) ==
    /\ req' = request("login", method, NULL, form)
    /\ UNCHANGED stores
    /\ IF "usuario_id" \in DOMAIN session
       THEN resp' = redirect("index", "none", <<>>, TRUE) /\ UNCHANGED session
       ELSE IF method = "POST" /\ LoginForm_validate(form)
            THEN LET found == {u \in usuarios : u.correo = form.correo} IN
                 IF credentials_ok(found, form.contrasena)
                 THEN LET usuario == CHOOSE u \in found : TRUE IN
                      /\ session' = [usuario_id |-> usuario.id,
                                     usuario_nombre |-> usuario.nombre,
                                     usuario_rol |-> usuario.rol]
                      /\ resp' = redirect("index", "success", <<>>, TRUE)
                 ELSE /\ resp' = render_template("login.html", "danger", <<>>)
                      /\ UNCHANGED session
            ELSE /\ resp' = render_template("login.html", "none", <<>>)
                 /\ UNCHANGED session

logout ==
    /\ req' = request("logout", "GET", NULL, NoForm)
    /\ session' = EmptySession
    /\ resp' = redirect("index", "info", <<>>, TRUE)
    /\ UNCHANGED stores

index ==
    /\ req' = request("index", "GET", NULL, NoForm)
    /\ resp' = render_template("index.html", "none", <<>>)
    /\ UNCHANGED <<stores, session>>

about ==
    /\ req' = request("about", "GET", NULL, NoForm)
    /\ resp' = render_template("about.html", "none", <<>>)
    /\ UNCHANGED <<stores, session>>

----------------------------------------------------------------------------
(* CRUD of users: every route is behind login_required and admin_required. *)
RolChoices == {"admin", "empleado"}

UsuarioForm_validate(form) ==
    /\ DataRequired(form.nombre)
    /\ DataRequired(form.correo) /\ Email(form.correo)
    /\ ValidChoice(RolChoices, form.rol)       \* contrasena is Optional()

listar_usuarios ==
    LET g == Gate(AdminStack) IN
    /\ req' = request("listar_usuarios", "GET", NULL, NoForm)
    /\ resp' = IF g.ok THEN render_list("users/list.html", usuarios, g.ran) ELSE g.resp
    /\ UNCHANGED <<stores, session>>

nuevo_usuario(method, form) ==
    LET g == Gate(AdminStack) IN
    /\ req' = request("nuevo_usuario", method, NULL, form)
    /\ UNCHANGED <<categorias, productos, clientes, ordenes, session>>
    /\ IF ~g.ok
       THEN resp' = g.resp /\ UNCHANGED <<usuarios, next_id>>
       ELSE IF method = "POST" /\ UsuarioForm_validate(form)
            THEN IF form.contrasena = ""
                 THEN /\ resp' = render_template("users/form.html", "danger", g.ran)
                      /\ UNCHANGED <<usuarios, next_id>>
                 ELSE \E salt \in Salts :
                      LET nuevo == [id |-> next_id.usuario, nombre |-> form.nombre,
                                    correo |-> form.correo,
                                    contrasena |-> generate_password_hash(form.contrasena, salt),
                                    rol |-> form.rol] IN
                      IF Unique(usuarios \cup {nuevo}, "correo")
                      THEN /\ next_id.usuario <= MaxUsuarioId
                           /\ usuarios' = usuarios \cup {nuevo}
                           /\ next_id' = Bump("usuario")
                           /\ resp' = redirect("listar_usuarios", "success", g.ran, TRUE)
                      ELSE /\ resp' = IntegrityError(g.ran)
                           /\ UNCHANGED <<usuarios, next_id>>
            ELSE /\ resp' = render_template("users/form.html", "none", g.ran)
                 /\ UNCHANGED <<usuarios, next_id>>

\* Line 339: the password field's data is blanked after the form has been
\* bound to the request and before it is validated and read.
blank_contrasena(form) == [form EXCEPT !.contrasena = ""]

editar_usuario(method, id, form) ==
    LET g == Gate(AdminStack) IN
    /\ req' = request("editar_usuario", method, id, form)
    /\ UNCHANGED <<categorias, productos, clientes, ordenes, next_id, session>>
    /\ IF ~g.ok
       THEN resp' = g.resp /\ UNCHANGED usuarios
       ELSE IF ~Exists(usuarios, id)
            THEN resp' = abort404(g.ran) /\ UNCHANGED usuarios
            ELSE LET usuario == Get(usuarios, id)
                     bound == blank_contrasena(form) IN
                 IF method = "POST" /\ UsuarioForm_validate(bound)
                 THEN \E salt \in Salts :
                      LET named == [usuario EXCEPT !.nombre = bound.nombre,
                                                   !.correo = bound.correo,
                                                   !.rol = bound.rol]
                          edited == IF bound.contrasena # ""
                                    THEN [named EXCEPT !.contrasena =
                                            generate_password_hash(bound.contrasena, salt)]
                                    ELSE named
                          after == (usuarios \ {usuario}) \cup {edited} IN
                      IF Unique(after, "correo")
                      THEN /\ usuarios' = after
                           /\ resp' = redirect("listar_usuarios", "success", g.ran, TRUE)
                      ELSE /\ resp' = IntegrityError(g.ran)
                           /\ UNCHANGED usuarios
                 ELSE /\ resp' = render_template("users/form.html", "none", g.ran)
                      /\ UNCHANGED usuarios

eliminar_usuario(id) ==
    LET g == Gate(AdminStack) IN
    /\ req' = request("eliminar_usuario", "POST", id, NoForm)
    /\ UNCHANGED <<categorias, productos, clientes, ordenes, next_id, session>>
    /\ IF ~g.ok
       THEN resp' = g.resp /\ UNCHANGED usuarios
       ELSE IF ~Exists(usuarios, id)
            THEN resp' = abort404(g.ran) /\ UNCHANGED usuarios
            ELSE /\ usuarios' = usuarios \ {Get(usuarios, id)}
                 /\ resp' = redirect("listar_usuarios", "success", g.ran, TRUE)

----------------------------------------------------------------------------
(* CRUD of categories: behind login_required and admin_required.           *)
CategoriaForm_validate(form) ==
    DataRequired(form.nombre) /\ Length(2, 100, form.nombre)

listar_categorias ==
    LET g == Gate(AdminStack) IN
    /\ req' = request("listar_categorias", "GET", NULL, NoForm)
    /\ resp' = IF g.ok THEN render_list("categories/list.html", categorias, g.ran) ELSE g.resp
    /\ UNCHANGED <<stores, session>>

nuevo_categoria(method, form) ==
    LET g == Gate(AdminStack) IN
    /\ req' = request("nuevo_categoria", method, NULL, form)
    /\ UNCHANGED <<usuarios, productos, clientes, ordenes, session>>
    /\ IF ~g.ok
       THEN resp' = g.resp /\ UNCHANGED <<categorias, next_id>>
       ELSE IF method = "POST" /\ CategoriaForm_validate(form)
            THEN LET nueva == [id |-> next_id.categoria, nombre |-> form.nombre,
                               descripcion |-> form.descripcion] IN
                 IF Unique(categorias \cup {nueva}, "nombre")
                 THEN /\ next_id.categoria <= MaxCategoriaId
                      /\ categorias' = categorias \cup {nueva}
                      /\ next_id' = Bump("categoria")
                      /\ resp' = redirect("listar_categorias", "success", g.ran, TRUE)
                 ELSE /\ resp' = IntegrityError(g.ran)
                      /\ UNCHANGED <<categorias, next_id>>
            ELSE /\ resp' = render_template("categories/form.html", "none", g.ran)
                 /\ UNCHANGED <<categorias, next_id>>

editar_categoria(method, id, form) ==
    LET g == Gate(AdminStack) IN
    /\ req' = request("editar_categoria", method, id, form)
    /\ UNCHANGED <<usuarios, productos, clientes, ordenes, next_id, session>>
    /\ IF ~g.ok
       THEN resp' = g.resp /\ UNCHANGED categorias
       ELSE IF ~Exists(categorias, id)
            THEN resp' = abort404(g.ran) /\ UNCHANGED categorias
            ELSE LET categoria == Get(categorias, id) IN
                 IF method = "POST" /\ CategoriaForm_validate(form)
                 THEN LET after == (categorias \ {categoria}) \cup
                                   {[categoria EXCEPT !.nombre = form.nombre,
                                                      !.descripcion = form.descripcion]} IN
                      IF Unique(after, "nombre")
                      THEN /\ categorias' = after
                           /\ resp' = redirect("listar_categorias", "success", g.ran, TRUE)
                      ELSE /\ resp' = IntegrityError(g.ran)
                           /\ UNCHANGED categorias
                 ELSE /\ resp' = render_template("categories/form.html", "none", g.ran)
                      /\ UNCHANGED categorias

\* Categoria.productos is a relationship with the default cascade: deleting
\* the parent makes the unit of work set each child's categoria_id to NULL,
\* which the nullable column accepts.
orphan_productos_mut_cascade(id) == {p \in productos : p.categoria_id # id}

orphan_productos(id) ==
    {IF p.categoria_id = id THEN [p EXCEPT !.categoria_id = NULL] ELSE p : p \in productos}

eliminar_categoria(id) ==
    LET g == Gate(AdminStack) IN
    /\ req' = request("eliminar_categoria", "POST", id, NoForm)
    /\ UNCHANGED <<usuarios, clientes, ordenes, next_id, session>>
    /\ IF ~g.ok
       THEN resp' = g.resp /\ UNCHANGED <<categorias, productos>>
       ELSE IF ~Exists(categorias, id)
            THEN resp' = abort404(g.ran) /\ UNCHANGED <<categorias, productos>>
            ELSE /\ categorias' = categorias \ {Get(categorias, id)}
                 /\ productos' = orphan_productos(id)
                 /\ resp' = redirect("listar_categorias", "success", g.ran, TRUE)

----------------------------------------------------------------------------
(* CRUD of products: behind login_required.                                *)
ProductoForm_validate(form, choices) ==
    /\ DataRequired(form.nombre) /\ Length(2, 120, form.nombre)
    /\ DataRequiredNumber(form.cantidad) /\ NumberRange(0, form.cantidad)
    /\ DataRequiredNumber(form.precio) /\ NumberRange(0, form.precio)
    /\ ValidChoice(choices, form.categoria_id)

listar_productos ==
    LET g == Gate(LoginStack) IN
    /\ req' = request("listar_productos", "GET", NULL, NoForm)
    /\ resp' = IF g.ok THEN render_list("products/list.html", productos, g.ran) ELSE g.resp
    /\ UNCHANGED <<stores, session>>

nuevo_producto(method, form) ==
    LET g == Gate(LoginStack) IN
    /\ req' = request("nuevo_producto", method, NULL, form)
    /\ UNCHANGED <<usuarios, categorias, clientes, ordenes, session>>
    /\ IF ~g.ok
       THEN resp' = g.resp /\ UNCHANGED <<productos, next_id>>
       ELSE IF method = "POST" /\ ProductoForm_validate(form, Ids(categorias))
            THEN LET nuevo == [id |-> next_id.producto, nombre |-> form.nombre,
                               cantidad |-> form.cantidad, precio |-> form.precio,
                               categoria_id |-> form.categoria_id] IN
                 IF Unique(productos \cup {nuevo}, "nombre")
                 THEN /\ next_id.producto <= MaxProductoId
                      /\ productos' = productos \cup {nuevo}
                      /\ next_id' = Bump("producto")
                      /\ resp' = redirect("listar_productos", "success", g.ran, TRUE)
                 ELSE /\ resp' = IntegrityError(g.ran)
                      /\ UNCHANGED <<productos, next_id>>
            ELSE /\ resp' = render_template("products/form.html", "none", g.ran)
                 /\ UNCHANGED <<productos, next_id>>

editar_producto(method, id, form) ==
    LET g == Gate(LoginStack) IN
    /\ req' = request("editar_producto", method, id, form)
    /\ UNCHANGED <<usuarios, categorias, clientes, ordenes, next_id, session>>
    /\ IF ~g.ok
       THEN resp' = g.resp /\ UNCHANGED productos
       ELSE IF ~Exists(productos, id)
            THEN resp' = abort404(g.ran) /\ UNCHANGED productos
            ELSE LET producto == Get(productos, id) IN
                 IF method = "POST" /\ ProductoForm_validate(form, Ids(categorias))
                 THEN LET after == (productos \ {producto}) \cup
                                   {[producto EXCEPT !.nombre = form.nombre,
                                                     !.cantidad = form.cantidad,
                                                     !.precio = form.precio,
                                                     !.categoria_id = form.categoria_id]} IN
                      IF Unique(after, "nombre")
                      THEN /\ productos' = after
                           /\ resp' = redirect("listar_productos", "success", g.ran, TRUE)
                      ELSE /\ resp' = IntegrityError(g.ran)
                           /\ UNCHANGED productos
                 ELSE /\ resp' = render_template("products/form.html", "none", g.ran)
                      /\ UNCHANGED productos

eliminar_producto(id) ==
    LET g == Gate(LoginStack) IN
    /\ req' = request("eliminar_producto", "POST", id, NoForm)
    /\ UNCHANGED <<usuarios, categorias, clientes, ordenes, next_id, session>>
    /\ IF ~g.ok
       THEN resp' = g.resp /\ UNCHANGED productos
       ELSE IF ~Exists(productos, id)
            THEN resp' = abort404(g.ran) /\ UNCHANGED productos
            ELSE /\ productos' = productos \ {Get(productos, id)}
                 /\ resp' = redirect("listar_productos", "success", g.ran, TRUE)

----------------------------------------------------------------------------
(* CRUD of customers: behind login_required.                               *)
ClienteForm_validate(form) ==
    /\ DataRequired(form.nombre) /\ Length(2, 120, form.nombre)
    /\ DataRequired(form.correo) /\ Email(form.correo)

listar_clientes ==
    LET g == Gate(LoginStack) IN
    /\ req' = request("listar_clientes", "GET", NULL, NoForm)
    /\ resp' = IF g.ok THEN render_list("customers/list.html", clientes, g.ran) ELSE g.resp
    /\ UNCHANGED <<stores, session>>

nuevo_cliente(method, form) ==
    LET g == Gate(LoginStack) IN
    /\ req' = request("nuevo_cliente", method, NULL, form)
    /\ UNCHANGED <<usuarios, categorias, productos, ordenes, session>>
    /\ IF ~g.ok
       THEN resp' = g.resp /\ UNCHANGED <<clientes, next_id>>
       ELSE IF method = "POST" /\ ClienteForm_validate(form)
            THEN LET nuevo == [id |-> next_id.cliente, nombre |-> form.nombre,
                               correo |-> form.correo, telefono |-> form.telefono,
                               direccion |-> form.direccion] IN
                 IF Unique(clientes \cup {nuevo}, "correo")
                 THEN /\ next_id.cliente <= MaxClienteId
                      /\ clientes' = clientes \cup {nuevo}
                      /\ next_id' = Bump("cliente")
                      /\ resp' = redirect("listar_clientes", "success", g.ran, TRUE)
                 ELSE /\ resp' = IntegrityError(g.ran)
                      /\ UNCHANGED <<clientes, next_id>>
            ELSE /\ resp' = render_template("customers/form.html", "none", g.ran)
                 /\ UNCHANGED <<clientes, next_id>>

editar_cliente(method, id, form) ==
    LET g == Gate(LoginStack) IN
    /\ req' = request("editar_cliente", method, id, form)
    /\ UNCHANGED <<usuarios, categorias, productos, ordenes, next_id, session>>
    /\ IF ~g.ok
       THEN resp' = g.resp /\ UNCHANGED clientes
       ELSE IF ~Exists(clientes, id)
            THEN resp' = abort404(g.ran) /\ UNCHANGED clientes
            ELSE LET cliente == Get(clientes, id) IN
                 IF method = "POST" /\ ClienteForm_validate(form)
                 THEN LET after == (clientes \ {cliente}) \cup
                                   {[cliente EXCEPT !.nombre = form.nombre,
                                                    !.correo = form.correo,
                                                    !.telefono = form.telefono,
                                                    !.direccion = form.direccion]} IN
                      IF Unique(after, "correo")
                      THEN /\ clientes' = after
                           /\ resp' = redirect("listar_clientes", "success", g.ran, TRUE)
                      ELSE /\ resp' = IntegrityError(g.ran)
                           /\ UNCHANGED clientes
                 ELSE /\ resp' = render_template("customers/form.html", "none", g.ran)
                      /\ UNCHANGED clientes

\* Cliente.ordenes is a relationship with the default cascade: deleting the
\* parent makes the unit of work set each child's cliente_id to NULL, which
\* the NOT NULL column refuses; the commit raises and nothing is written.
cliente_delete_commits_mut_always(id) == TRUE

cliente_delete_commits(id) == \A o \in ordenes : o.cliente_id # id

eliminar_cliente(id) ==
    LET g == Gate(LoginStack) IN
    /\ req' = request("eliminar_cliente", "POST", id, NoForm)
    /\ UNCHANGED <<usuarios, categorias, productos, ordenes, next_id, session>>
    /\ IF ~g.ok
       THEN resp' = g.resp /\ UNCHANGED clientes
       ELSE IF ~Exists(clientes, id)
            THEN resp' = abort404(g.ran) /\ UNCHANGED clientes
            ELSE IF cliente_delete_commits(id)
                 THEN /\ clientes' = clientes \ {Get(clientes, id)}
                      /\ resp' = redirect("listar_clientes", "success", g.ran, TRUE)
                 ELSE /\ resp' = IntegrityError(g.ran)
                      /\ UNCHANGED clientes

----------------------------------------------------------------------------
(* CRUD of orders: behind login_required.                                  *)
OrdenForm_validate(form, choices) ==
    /\ DataRequiredNumber(form.cliente_id) /\ ValidChoice(choices, form.cliente_id)
    /\ DataRequired(form.fecha)

\* Line 387: the total a new order is stored with.
total_inicial == 0

listar_ordenes ==
    LET g == Gate(LoginStack) IN
    /\ req' = request("listar_ordenes", "GET", NULL, NoForm)
    /\ resp' = IF g.ok THEN render_list("orders/list.html", ordenes, g.ran) ELSE g.resp
    /\ UNCHANGED <<stores, session>>

\* Line 378: the early return when no customer exists.
no_clientes_mut_never(rows) == FALSE

no_clientes(rows) == rows = {}

nueva_orden(method, form) ==
    LET g == Gate(LoginStack) IN
    /\ req' = request("nueva_orden", method, NULL, form)
    /\ UNCHANGED <<usuarios, categorias, productos, clientes, session>>
    /\ IF ~g.ok
       THEN resp' = g.resp /\ UNCHANGED <<ordenes, next_id>>
       ELSE IF no_clientes(clientes)
            THEN /\ resp' = redirect("listar_clientes", "warning", g.ran, TRUE)
                 /\ UNCHANGED <<ordenes, next_id>>
            ELSE IF method = "POST" /\ OrdenForm_validate(form, Ids(clientes))
                 THEN /\ next_id.orden <= MaxOrdenId
                      /\ ordenes' = ordenes \cup
                             {[id |-> next_id.orden, cliente_id |-> form.cliente_id,
                               fecha |-> form.fecha, total |-> total_inicial]}
                      /\ next_id' = Bump("orden")
                      /\ resp' = redirect("listar_ordenes", "success", g.ran, TRUE)
                 ELSE /\ resp' = render_template("orders/form.html", "none", g.ran)
                      /\ UNCHANGED <<ordenes, next_id>>

\* form.populate_obj(orden): every field of OrdenForm is written to the row.
OrdenForm_populate_obj_mut_total(orden, form) ==
    [orden EXCEPT !.cliente_id = form.cliente_id, !.fecha = form.fecha,
                  !.total = orden.total + 1]

OrdenForm_populate_obj(orden, form) ==
    [orden EXCEPT !.cliente_id = form.cliente_id, !.fecha = form.fecha]

editar_orden(method, id, form) ==
    LET g == Gate(LoginStack) IN
    /\ req' = request("editar_orden", method, id, form)
    /\ UNCHANGED <<usuarios, categorias, productos, clientes, next_id, session>>
    /\ IF ~g.ok
       THEN resp' = g.resp /\ UNCHANGED ordenes
       ELSE IF ~Exists(ordenes, id)
            THEN resp' = abort404(g.ran) /\ UNCHANGED ordenes
            ELSE LET orden == Get(ordenes, id) IN
                 IF method = "POST" /\ OrdenForm_validate(form, Ids(clientes))
                 THEN /\ ordenes' = (ordenes \ {orden}) \cup {OrdenForm_populate_obj(orden, form)}
                      /\ resp' = redirect("listar_ordenes", "success", g.ran, TRUE)
                 ELSE /\ resp' = render_template("orders/form.html", "none", g.ran)
                      /\ UNCHANGED ordenes

eliminar_orden(id) ==
    LET g == Gate(LoginStack) IN
    /\ req' = request("eliminar_orden", "POST", id, NoForm)
    /\ UNCHANGED <<usuarios, categorias, productos, clientes, next_id, session>>
    /\ IF ~g.ok
       THEN resp' = g.resp /\ UNCHANGED ordenes
       ELSE IF ~Exists(ordenes, id)
            THEN resp' = abort404(g.ran) /\ UNCHANGED ordenes
            ELSE /\ ordenes' = ordenes \ {Get(ordenes, id)}
                 /\ resp' = redirect("listar_ordenes", "success", g.ran, TRUE)

ver_orden(id) ==
    LET g == Gate(LoginStack) IN
    /\ req' = request("ver_orden", "GET", id, NoForm)
    /\ resp' = IF ~g.ok THEN g.resp
               ELSE IF ~Exists(ordenes, id) THEN abort404(g.ran)
               ELSE render_list("orders/detalle.html", {Get(ordenes, id)}, g.ran)
    /\ UNCHANGED <<stores, session>>

----------------------------------------------------------------------------
(* Inputs.  Each set holds the forms that validate and, for every          *)
(* validator of the form, one that it refuses.                             *)
AdminLogin == [correo |-> "admin@dulcehogar.com", contrasena |-> "admin123"]

LoginForms ==
    [correo : {"admin@dulcehogar.com", "ana@dulcehogar.com", "ana"},
     contrasena : {"", "admin123", "clave"}]

UsuarioForms ==
    [nombre : {"Ana"}, correo : ValidEmails, contrasena : {"", "clave"}, rol : RolChoices]
    \cup {[nombre |-> "", correo |-> "ana@dulcehogar.com", contrasena |-> "clave",
           rol |-> "empleado"],
          [nombre |-> "Ana", correo |-> "ana", contrasena |-> "clave", rol |-> "empleado"],
          [nombre |-> "Ana", correo |-> "ana@dulcehogar.com", contrasena |-> "clave",
           rol |-> "jefe"]}

UsuarioIds == 1..MaxUsuarioId

CategoriaForms ==
    [nombre : {"Postres", "Panes", "P"}, descripcion : {""}]

CategoriaIds == 1..MaxCategoriaId

ProductoForms ==
    [nombre : {"Pastel"}, cantidad : {3}, precio : {25}, categoria_id : {NULL} \cup CategoriaIds]
    \cup {[nombre |-> "Pan", cantidad |-> 3, precio |-> 25, categoria_id |-> 1],
          [nombre |-> "Pastel", cantidad |-> 0, precio |-> 25, categoria_id |-> 1],
          [nombre |-> "Pastel", cantidad |-> 3, precio |-> 0, categoria_id |-> 1],
          [nombre |-> "Pastel", cantidad |-> -1, precio |-> 25, categoria_id |-> 1],
          [nombre |-> "P", cantidad |-> 3, precio |-> 25, categoria_id |-> 1]}

ProductoIds == 1..MaxProductoId

ClienteForms ==
    [nombre : {"Ana"}, correo : ValidEmails, telefono : {""}, direccion : {""}]
    \cup {[nombre |-> "A", correo |-> "ana@dulcehogar.com", telefono |-> "",
           direccion |-> ""],
          [nombre |-> "Ana", correo |-> "ana", telefono |-> "", direccion |-> ""]}

ClienteIds == 1..MaxClienteId

OrdenForms ==
    [cliente_id : {NULL} \cup ClienteIds, fecha : {"2024-01-01"}]
    \cup {[cliente_id |-> 1, fecha |-> "2024-01-02"], [cliente_id |-> 1, fecha |-> ""]}

OrdenIds == 1..MaxOrdenId

----------------------------------------------------------------------------
(* Specifications.  The five tables are touched by disjoint groups of      *)
(* routes, so each group is explored with the session routes.              *)

\* The credential store and the session.
NextUsuarios ==
    \/ \E f \in LoginForms : login("POST", f)
    \/ login("GET", NoForm)
    \/ logout
    \/ listar_usuarios
    \/ \E f \in UsuarioForms : nuevo_usuario("POST", f)
    \/ nuevo_usuario("GET", NoForm)
    \/ \E id \in UsuarioIds, f \in UsuarioForms : editar_usuario("POST", id, f)
    \/ \E id \in UsuarioIds : editar_usuario("GET", id, NoForm)
    \/ \E id \in UsuarioIds : eliminar_usuario(id)

SpecUsuarios == Init /\ [][NextUsuarios]_vars

\* The catalog.
NextCatalogo ==
    \/ login("POST", AdminLogin)
    \/ logout
    \/ \E f \in CategoriaForms : nuevo_categoria("POST", f)
    \/ \E id \in CategoriaIds : eliminar_categoria(id)
    \/ listar_productos
    \/ \E f \in ProductoForms : nuevo_producto("POST", f)
    \/ nuevo_producto("GET", NoForm)
    \/ \E id \in ProductoIds, f \in ProductoForms : editar_producto("POST", id, f)
    \/ \E id \in ProductoIds : editar_producto("GET", id, NoForm)
    \/ \E id \in ProductoIds : eliminar_producto(id)

SpecCatalogo == Init /\ [][NextCatalogo]_vars

\* The order ledger.
NextOrdenes ==
    \/ login("POST", AdminLogin)
    \/ logout
    \/ listar_clientes
    \/ \E f \in ClienteForms : nuevo_cliente("POST", f)
    \/ nuevo_cliente("GET", NoForm)
    \/ \E id \in ClienteIds, f \in ClienteForms : editar_cliente("POST", id, f)
    \/ \E id \in ClienteIds : editar_cliente("GET", id, NoForm)
    \/ \E id \in ClienteIds : eliminar_cliente(id)
    \/ listar_ordenes
    \/ \E f \in OrdenForms : nueva_orden("POST", f)
    \/ nueva_orden("GET", NoForm)
    \/ \E id \in OrdenIds, f \in OrdenForms : editar_orden("POST", id, f)
    \/ \E id \in OrdenIds : editar_orden("GET", id, NoForm)
    \/ \E id \in OrdenIds : eliminar_orden(id)
    \/ \E id \in OrdenIds : ver_orden(id)

SpecOrdenes == Init /\ [][NextOrdenes]_vars

\* The role-gated routes: categories and users, reached by an administrator,
\* by an employee and by a caller with no session.
AnaLogin == [correo |-> "ana@dulcehogar.com", contrasena |-> "clave"]

GateUsuarioForms ==
    [nombre : {"Ana"}, correo : {"ana@dulcehogar.com"}, contrasena : {"clave"},
     rol : RolChoices]

NextGate ==
    \/ \E f \in {AdminLogin, AnaLogin} : login("POST", f)
    \/ logout
    \/ index
    \/ about
    \/ listar_categorias
    \/ \E f \in CategoriaForms : nuevo_categoria("POST", f)
    \/ nuevo_categoria("GET", NoForm)
    \/ \E id \in CategoriaIds, f \in CategoriaForms : editar_categoria("POST", id, f)
    \/ \E id \in CategoriaIds : editar_categoria("GET", id, NoForm)
    \/ \E id \in CategoriaIds : eliminar_categoria(id)
    \/ listar_usuarios
    \/ \E f \in GateUsuarioForms : nuevo_usuario("POST", f)
    \/ \E id \in UsuarioIds, f \in GateUsuarioForms : editar_usuario("POST", id, f)
    \/ \E id \in UsuarioIds : eliminar_usuario(id)

SpecGate == Init /\ [][NextGate]_vars

\* Every route.
Next == NextUsuarios \/ NextCatalogo \/ NextOrdenes \/ NextGate

Spec == Init /\ [][Next]_vars

----------------------------------------------------------------------------
(* The outcomes the specification names, as the responses that carry them. *)
Unauthenticated(r) == r.status = "redirect" /\ r.to = "login" /\ r.flash = "warning"

Forbidden(r) == r.status = "redirect" /\ r.to = "index" /\ r.flash = "danger"

LoginRefused(r) == r.status = "render" /\ r.to = "login.html"

InvalidCredentials(r) == LoginRefused(r) /\ r.flash = "danger"

NoCustomers(r) == r.status = "redirect" /\ r.to = "listar_clientes" /\ r.flash = "warning"

Succeeded(r) == r.status = "redirect" /\ r.flash = "success"

\* A failure recovered at the request boundary: a page or a redirect, never
\* an exception leaving the view.
Recovered(r) == r.status \in {"redirect", "render"}

SessionRole(s) == IF "usuario_rol" \in DOMAIN s THEN s["usuario_rol"] ELSE "none"

AdminRoutes ==
    {"listar_categorias", "nuevo_categoria", "editar_categoria", "eliminar_categoria",
     "listar_usuarios", "nuevo_usuario", "editar_usuario", "eliminar_usuario"}

----------------------------------------------------------------------------
(* C1: a login posted by a logged-out caller for a registered email, with   *)
(* a password that does not match that user's stored hash, is refused (the  *)
(* login page again, with the danger notice when a password was typed) and  *)
(* leaves the session without user id, name or role.                        *)
C1_WrongPassword ==
    /\ req'.route = "login" /\ req'.method = "POST"
    /\ ~login_required(session)
    /\ \E u \in usuarios : /\ u.correo = req'.form.correo
                           /\ ~check_password_hash(u.contrasena, req'.form.contrasena)

C1_Step ==
    C1_WrongPassword =>
       /\ LoginRefused(resp')
       /\ (DataRequired(req'.form.contrasena) => InvalidCredentials(resp'))
       /\ DOMAIN session' \cap {"usuario_id", "usuario_nombre", "usuario_rol"} = {}

\* C1: every wrong-password login by a logged-out caller is refused and
\* creates no session.
C1_LoginRefusesWrongPassword == [][C1_Step]_vars

\* A registered employee's email was posted with the administrator's password.
C1_Witness ==
    /\ req.route = "login" /\ req.method = "POST"
    /\ InvalidCredentials(resp)
    /\ session = EmptySession
    /\ \E u \in usuarios : /\ u.correo = req.form.correo
                           /\ u.rol = "empleado"
                           /\ ~check_password_hash(u.contrasena, req.form.contrasena)

(* C2: on every role-gated route a session whose role is not 'admin' is     *)
(* answered Forbidden, the handler body runs only under an admin session,   *)
(* and no step changes the category or user table without such a session.   *)
C2_State ==
    req.route \in AdminRoutes =>
       /\ (login_required(session) /\ SessionRole(session) # "admin" => Forbidden(resp))
       /\ (resp.body => login_required(session) /\ SessionRole(session) = "admin")

C2_Step ==
    (categorias' # categorias \/ usuarios' # usuarios) =>
       /\ req'.route \in AdminRoutes
       /\ login_required(session) /\ SessionRole(session) = "admin"

\* C2: role-gated routes answer Forbidden to a non-admin session, and only
\* an admin session runs their bodies or changes categories or users.
C2_AdminOnly == [](C2_State) /\ [][C2_Step]_vars

\* An employee asked for a category route after a category had been created.
C2_Witness ==
    /\ req.route \in AdminRoutes
    /\ login_required(session) /\ SessionRole(session) = "empleado"
    /\ Forbidden(resp) /\ ~resp.body
    /\ categorias # {}

(* C3: on a role-gated route the session check comes first: without a       *)
(* session the answer is Unauthenticated and the role check is not reached; *)
(* the role check is reached only with a session, the body only after both. *)
C3_SessionBeforeRole ==
    req.route \in AdminRoutes =>
       /\ (~login_required(session) =>
              Unauthenticated(resp) /\ ~Forbidden(resp) /\ resp.ran = <<"login_required">>)
       /\ (\E i \in 1..Len(resp.ran) : resp.ran[i] = "admin_required") =>
              (resp.ran[1] = "login_required" /\ login_required(session))
       /\ resp.body =>
              /\ resp.ran = <<"login_required", "admin_required">>
              /\ login_required(session) /\ admin_required(session)

\* After an administrator created a category and logged out, a caller with
\* no session asked for a role-gated route.
C3_Witness ==
    /\ req.route \in AdminRoutes
    /\ session = EmptySession
    /\ Unauthenticated(resp) /\ ~resp.body
    /\ categorias # {}

(* C4: create_order by a logged-in caller with no customer in the store is  *)
(* answered NoCustomers and stores no order; with a customer in the store,  *)
(* an existing customer's id and a date, it succeeds and stores exactly one *)
(* new order, whose total is 0.                                             *)
C4_Step ==
    (req'.route = "nueva_orden" /\ login_required(session)) =>
       /\ clientes = {} => (NoCustomers(resp') /\ ordenes' = ordenes)
       /\ ( /\ clientes # {} /\ req'.method = "POST"
            /\ req'.form.cliente_id \in Ids(clientes)
            /\ DataRequired(req'.form.fecha) ) =>
              /\ Succeeded(resp')
              /\ \E o \in ordenes' :
                    /\ ordenes' = ordenes \cup {o} /\ o \notin ordenes
                    /\ o.cliente_id = req'.form.cliente_id
                    /\ o.fecha = req'.form.fecha
                    /\ o.total = 0

\* C4: create_order is NoCustomers with no customer and stores nothing;
\* otherwise it stores one order with total 0.
C4_CreateOrder == [][C4_Step]_vars

\* An order form was posted while no customer existed, after an order had
\* been created and its customer's orders and the customer deleted.
C4_Witness ==
    /\ req.route = "nueva_orden" /\ req.method = "POST"
    /\ NoCustomers(resp)
    /\ clientes = {} /\ ordenes = {}
    /\ next_id.orden > 1

(* C5: create_product by a logged-in caller with a valid name, quantity     *)
(* >= 0, price >= 0 (no category chosen included) and a name no product     *)
(* has succeeds, and the product list then holds that name exactly once.    *)
C5_Step ==
    ( /\ req'.route = "nuevo_producto" /\ req'.method = "POST"
      /\ login_required(session)
      /\ DataRequired(req'.form.nombre) /\ Length(2, 120, req'.form.nombre)
      /\ req'.form.cantidad >= 0 /\ req'.form.precio >= 0
      /\ req'.form.categoria_id \in {NULL} \cup Ids(categorias)
      /\ \A p \in productos : p.nombre # req'.form.nombre ) =>
         /\ Succeeded(resp')
         /\ Cardinality({p \in productos' : p.nombre = req'.form.nombre}) = 1

\* C5: every valid, non-colliding create_product succeeds and is listed once.
C5_CreateProduct == [][C5_Step]_vars

(* C6: create_product with the name of an existing product fails with a     *)
(* recovered error (a notice, not an unhandled fault) and leaves the        *)
(* product store unchanged.                                                 *)
C6_Step ==
    ( /\ req'.route = "nuevo_producto" /\ req'.method = "POST"
      /\ login_required(session)
      /\ \E p \in productos : p.nombre = req'.form.nombre ) =>
         /\ Recovered(resp') /\ ~Succeeded(resp')
         /\ productos' = productos

\* C6: a create_product with an existing name is a recovered failure and
\* leaves the products unchanged.
C6_DuplicateName == [][C6_Step]_vars

(* C7: after an administrator's user update that carried a non-empty        *)
(* password, that password authenticates the user.                          *)
C7_NewPasswordAuthenticates ==
    ( /\ req.route = "editar_usuario" /\ req.method = "POST"
      /\ Succeeded(resp)
      /\ req.form.contrasena # ""
      /\ Exists(usuarios, req.id) ) =>
         check_password_hash(Get(usuarios, req.id).contrasena, req.form.contrasena)

(* C8: deleting a category removes that category only: every product is    *)
(* kept with its name, quantity and price, a product that referred to the   *)
(* category now refers to none, and every other product is untouched.       *)
C8_Step ==
    (req'.route = "eliminar_categoria" /\ Succeeded(resp')) =>
       /\ categorias' = {c \in categorias : c.id # req'.id}
       /\ Ids(productos') = Ids(productos)
       /\ Cardinality(productos') = Cardinality(productos)
       /\ \A p \in productos :
             Get(productos', p.id) =
                IF p.categoria_id = req'.id THEN [p EXCEPT !.categoria_id = NULL] ELSE p

\* C8: deleting a category keeps every product and nulls only the
\* references to it.
C8_DeleteCategory == [][C8_Step]_vars

\* A category was deleted; one product lost its reference, another keeps its own.
C8_Witness ==
    /\ req.route = "eliminar_categoria" /\ Succeeded(resp)
    /\ \E p \in productos : p.categoria_id = NULL
    /\ \E p \in productos : p.categoria_id \in Ids(categorias)

(* C9: every stored order has total 0, and update_order changes only the    *)
(* customer reference and the date of the one order it names.               *)
C9_State == \A o \in ordenes : o.total = 0

C9_Step ==
    (req'.route = "editar_orden" /\ ordenes' # ordenes) =>
       /\ Ids(ordenes') = Ids(ordenes)
       /\ \A o \in ordenes :
             /\ Get(ordenes', o.id).total = o.total
             /\ o.id # req'.id => o \in ordenes'

\* C9: every order's total is 0 in every state, and update_order never
\* touches a total.
C9_TotalZero == [](C9_State) /\ [][C9_Step]_vars

\* An order was updated to another customer and another date.
C9_Witness ==
    /\ req.route = "editar_orden" /\ Succeeded(resp)
    /\ \E o \in ordenes : /\ o.id = req.id /\ o.total = 0
                          /\ o.fecha = "2024-01-02"
    /\ Cardinality(ordenes) >= 2

(* C10: every stored order refers to a customer that exists; deleting a     *)
(* customer that has orders fails and changes neither store.                *)
C10_State ==
    \A o \in ordenes : o.cliente_id # NULL /\ Exists(clientes, o.cliente_id)

C10_Step ==
    (req'.route = "eliminar_cliente" /\ \E o \in ordenes : o.cliente_id = req'.id) =>
       /\ ~Succeeded(resp')
       /\ clientes' = clientes /\ ordenes' = ordenes

\* C10: every order's customer exists in every state, and deleting a
\* customer with orders changes nothing.
C10_OrdersHaveCustomers == [](C10_State) /\ [][C10_Step]_vars

\* A logged-in caller asked to delete a customer that has an order.
C10_Witness ==
    /\ req.route = "eliminar_cliente"
    /\ resp.status = "error"
    /\ \E o \in ordenes : o.cliente_id = req.id
    /\ Exists(clientes, req.id)

====
